---- MODULE Spec2Model ----
(***************************************************************************)
(* Model of docs/examples/examples.py, the example gallery script of       *)
(* three-cad-viewer.  The script is a sequence of "# %%" cells; each cell  *)
(* builds objects, shows them in the viewer and exports them to a .js      *)
(* file.  The model is an interpreter of the script's statements: the      *)
(* heap of Python objects, the variable bindings, the working directory,   *)
(* the viewer and the program counter are the state.                       *)
(*                                                                         *)
(* Python strings that the script transforms (the arguments of save) are   *)
(* sequences of one-character strings; attribute values, which the script  *)
(* only stores, are TLA+ strings.  An optional value (a keyword argument   *)
(* defaulting to None, an attribute that may be unset) is <<>> for None    *)
(* and <<v>> for the value v.                                              *)
(***************************************************************************)
EXTENDS Integers, Sequences, FiniteSets, TLC

VARIABLES
    run,        \* number of the current execution of the script (process)
    status,     \* "running", "halted" (uncaught exception) or "exited"
    pc,         \* <<cell, statement>> of the next statement to execute
    heap,       \* the objects the process has constructed, in order
    env,        \* module-level variable name -> index into heap
    zz,         \* the list bound to the variable zz (line 162)
    viewer,     \* what the viewer displays (the last show call)
    files,      \* working directory: file name -> sequence of chunks written
    log,        \* the effects of the current process, in order
    completed,  \* number of executions that ran to the end of the script
    firstFiles, \* <<>>, or <<files>> as the first complete execution left it
    call        \* harness: one call of save with chosen arguments

vars == <<run, status, pc, heap, env, zz, viewer, files, log, completed,
          firstFiles, call>>

\* Bounds of the model.
MaxRuns == 2
MaxNameLen == 2

None == <<>>
Some(v) == <<v>>

----------------------------------------------------------------------------
(* Strings *)

\* str.replace(old, new) for one-character old and new (line 14).
Replace(s, old, new) ==
    [i \in 1..Len(s) |-> IF s[i] = old THEN new ELSE s[i]]

\* The suffix of the f-string f"{filename}.js" (line 14).
DotJs == <<".", "j", "s">>

----------------------------------------------------------------------------
(* The export helper, lines 11-14 *)

\* Variant: the dash replacement is applied to the file name as well.
saveNormalizesFilename(name, obj, filename) ==
    LET fn == IF filename = None THEN name ELSE filename[1]
    IN  [var      |-> Replace(name, "-", "_"),
         objs     |-> <<obj>>,
         names    |-> None,
         filename |-> Replace(fn, "-", "_") \o DotJs]

\* Variant: the filename argument is ignored.
saveIgnoresFilename(name, obj, filename) ==
    [var      |-> Replace(name, "-", "_"),
     objs     |-> <<obj>>,
     names    |-> None,
     filename |-> name \o DotJs]

\* save(name, obj, filename=None): the call of export_three_cad_viewer_js it
\* makes, as the record of that call's arguments.
save(name, obj, filename) ==
    LET fn == IF filename = None THEN name ELSE filename[1]
    IN  [var      |-> Replace(name, "-", "_"),
         objs     |-> <<obj>>,
         names    |-> None,
         filename |-> fn \o DotJs]

\* Variant of the export utility: the file is opened for appending.
exportAppends(fs, fname, chunk) ==
    [f \in DOMAIN fs \cup {fname} |->
        IF f = fname
        THEN (IF f \in DOMAIN fs THEN Append(fs[f], chunk) ELSE <<chunk>>)
        ELSE fs[f]]

\* export_three_cad_viewer_js writes the scene as the whole content of the
\* named file: an existing file of that name is replaced.
export_three_cad_viewer_js(fs, fname, chunk) ==
    [f \in DOMAIN fs \cup {fname} |-> IF f = fname THEN <<chunk>> ELSE fs[f]]

\* The file as a failed export may leave it: created or truncated, nothing
\* written.
Truncated(fs, fname) ==
    [f \in DOMAIN fs \cup {fname} |-> IF f = fname THEN <<>> ELSE fs[f]]

----------------------------------------------------------------------------
(* Torus knot sampling, lines 147-162 *)

\* math.pi as a rational, truncated to six decimals.
pi == [num |-> 3141592, den |-> 1000000]

RatInt(n) == [num |-> n, den |-> 1]
RatMul(r, n) == [num |-> r.num * n, den |-> r.den]

\* int(x) of a non-negative number: truncation.
int(r) == r.num \div r.den

\* Variant: the upper limit is truncated before it is scaled by samples.
pointsTruncatesFirst(t0, t1, samples) ==
    LET lo == int(t0)
        hi == int(t1) * samples
    IN  [i \in 1..(IF hi > lo THEN hi - lo ELSE 0) |-> lo + i - 1]

\* points(t0, t1, samples): one Vector per t in range(int(t0), int(t1 *
\* samples)).  A Vector's coordinates are functions of t / samples alone;
\* the point is represented by its t.
points(t0, t1, samples) ==
    LET lo == int(t0)
        hi == int(RatMul(t1, samples))
    IN  [i \in 1..(IF hi > lo THEN hi - lo ELSE 0) |-> lo + i - 1]

----------------------------------------------------------------------------
(* Axis-aligned geometry of the Boxes cell, lines 84-102.  Chamfers and    *)
(* fillets are left out: a solid is a box or a cut of two solids, and its  *)
(* volume is counted in unit cells <<x, y, z>> = [x,x+1]x[y,y+1]x[z,z+1].  *)

NoGeom == [k |-> "none"]

\* Workplane("XY").transformed(offset=o).box(l, w, h): centred on o.
box(l, w, h, o) ==
    [k |-> "box",
     x0 |-> o[1] - l \div 2, x1 |-> o[1] + l \div 2,
     y0 |-> o[2] - w \div 2, y1 |-> o[2] + w \div 2,
     z0 |-> o[3] - h \div 2, z1 |-> o[3] + h \div 2]

cut(a, b) == [k |-> "cut", a |-> a, b |-> b]

RECURSIVE mirrorXY(_)
\* mirror("XY"): z -> -z.
mirrorXY(s) ==
    IF s.k = "box" THEN [s EXCEPT !.z0 = -s.z1, !.z1 = -s.z0]
    ELSE IF s.k = "cut" THEN cut(mirrorXY(s.a), mirrorXY(s.b))
    ELSE s

RECURSIVE translate(_, _)
\* translate((dx, dy, dz)).
translate(s, d) ==
    IF s.k = "box"
    THEN [s EXCEPT !.x0 = @ + d[1], !.x1 = @ + d[1],
                   !.y0 = @ + d[2], !.y1 = @ + d[2],
                   !.z0 = @ + d[3], !.z1 = @ + d[3]]
    ELSE IF s.k = "cut" THEN cut(translate(s.a, d), translate(s.b, d))
    ELSE s

RECURSIVE Inside(_, _)
Inside(s, c) ==
    IF s.k = "box"
    THEN /\ s.x0 <= c[1] /\ c[1] < s.x1
         /\ s.y0 <= c[2] /\ c[2] < s.y1
         /\ s.z0 <= c[3] /\ c[3] < s.z1
    ELSE IF s.k = "cut" THEN Inside(s.a, c) /\ ~Inside(s.b, c)
    ELSE FALSE

RECURSIVE BBox(_)
BBox(s) == IF s.k = "cut" THEN BBox(s.a) ELSE s

CellsOf(s) ==
    LET bb == BBox(s)
    IN  {c \in (bb.x0 .. bb.x1 - 1) \X (bb.y0 .. bb.y1 - 1) \X (bb.z0 .. bb.z1 - 1) :
            Inside(s, c)}

Volume(s) == Cardinality(CellsOf(s))

\* The cells of a set that lie in solid t.
Within(cells, t) == {c \in cells : Inside(t, c)}

----------------------------------------------------------------------------
(* The statements of the script.  A statement is a record; op names its    *)
(* kind.  Geometry is carried only where the Boxes cell needs it, as an    *)
(* expression over the variables bound at that point.                      *)

GNone == [g |-> "none"]
GBox(l, w, h, o) == [g |-> "box", l |-> l, w |-> w, h |-> h, o |-> o]
GVar(v) == [g |-> "var", var |-> v]
GMirrorXY(e) == [g |-> "mirrorXY", of |-> e]
GTranslate(e, d) == [g |-> "translate", of |-> e, by |-> d]
GCut(a, b) == [g |-> "cut", a |-> a, b |-> b]

\* var = <expression constructing a new object>
New(var, kind) ==
    [op |-> "new", var |-> var, kind |-> kind, geom |-> GNone, name |-> None]
\* the same, for an expression whose axis-aligned extent the model keeps
NewGeom(var, kind, geom) ==
    [op |-> "new", var |-> var, kind |-> kind, geom |-> geom, name |-> None]
\* the same, for a constructor called with name=...
NewNamed(var, kind, name) ==
    [op |-> "new", var |-> var, kind |-> kind, geom |-> GNone, name |-> Some(name)]
\* var.attr = val
SetAttr(var, attr, val) ==
    [op |-> "setattr", var |-> var, attr |-> attr, val |-> val]
\* var = Compound(label=label, children=[...])
Compound(var, label, children) ==
    [op |-> "compound", var |-> var, label |-> label, children |-> children]
\* var = cq.Assembly(name=name).add(v, name=..., color=...)...
Assembly(var, name, parts) ==
    [op |-> "assembly", var |-> var, name |-> name, parts |-> parts]
\* zz = points(t0, t1, samples)
Points(t0, t1, samples) ==
    [op |-> "points", t0 |-> t0, t1 |-> t1, samples |-> samples]
\* show(*vars, names=names)
Show(shown, names) == [op |-> "show", vars |-> shown, names |-> names]
\* save(name, var, filename=filename)
Save(name, var, filename) ==
    [op |-> "save", name |-> name, var |-> var, filename |-> filename]
\* export_three_cad_viewer_js(id, *vars, names=names, filename=filename)
Export(id, exported, names, filename) ==
    [op |-> "export", id |-> id, vars |-> exported, names |-> names,
     filename |-> filename]

\* lines 17-21, Example "box"
Cell_box ==
    <<New("b", "Workplane.box.fillet"),
      Show(<<"b">>, None),
      Save(<<"b", "o", "x">>, "b", None)>>

\* Variant: the export precedes the display.
Cell_box1_SaveBeforeShow ==
    <<New("b", "Workplane.box"),
      Save(<<"b", "o", "x", "1">>, "b", None),
      Show(<<"b">>, None)>>

\* lines 23-27, Example "box1"
Cell_box1 ==
    <<New("b", "Workplane.box"),
      Show(<<"b">>, None),
      Save(<<"b", "o", "x", "1">>, "b", None)>>

\* lines 29-33, Example "Image Face"
Cell_ImageFace ==
    <<NewNamed("f", "ImageFace", "imageplane"),
      Show(<<"f">>, None),
      Save(<<"i", "m", "a", "g", "e", "-", "f", "a", "c", "e">>, "f", None)>>

\* lines 35-54, Example "orientation box"
Cell_orientation_box ==
    <<New("b", "Box"),
      New("f", "faces.sort_by"),
      New("b", "add.extrude.Text"),
      New("f", "faces.sort_by"),
      New("b", "add.extrude.Text"),
      New("f", "faces.sort_by"),
      New("b", "add.extrude.Text"),
      New("f", "faces.sort_by"),
      New("b", "add.extrude.Text"),
      New("f", "faces.sort_by"),
      New("b", "add.extrude.Text"),
      New("f", "faces.sort_by"),
      New("b", "add.extrude.Text"),
      Show(<<"b">>, None),
      Save(<<"o", "r", "i", "e", "n", "t", "_", "b", "o", "x">>, "b", Some(<<"o", "r", "i", "e", "n", "t", "a", "t", "i", "o", "n", "-", "b", "o", "x">>))>>

\* lines 56-80, Example "dir box" (fs and ex are plain numbers)
Cell_dir_box ==
    <<New("b", "Box"),
      New("b", "fillet"),
      New("b", "chamfer"),
      New("f", "faces.sort_by"),
      New("b", "sub.extrude.Text"),
      New("f", "faces.sort_by"),
      New("b", "sub.extrude.Text"),
      New("f", "faces.sort_by"),
      New("b", "sub.extrude.Text"),
      New("f", "faces.sort_by"),
      New("b", "sub.extrude.Text"),
      New("f", "faces.sort_by"),
      New("b", "sub.extrude.Text"),
      New("f", "faces.sort_by"),
      New("b", "sub.extrude.Text"),
      Show(<<"b">>, None),
      Save(<<"d", "i", "r", "b", "o", "x">>, "b", Some(<<"d", "i", "r", "b", "o", "x">>))>>

\* Variant: box4 is translated by (0, 5, 0) instead of (0, -5, 0).
Cell_Boxes_Box4ShiftedUp ==
    <<NewGeom("box1", "Workplane.box.chamfer", GBox(10, 20, 30, <<0, 0, 0>>)),
      SetAttr("box1", "name", "box1"),
      NewGeom("box2", "Workplane.box.chamfer", GBox(8, 18, 28, <<0, 0, 0>>)),
      SetAttr("box2", "name", "box2"),
      NewGeom("box3", "Workplane.transformed.box.fillet", GBox(30, 20, 6, <<0, 15, 7>>)),
      SetAttr("box3", "name", "box3"),
      NewGeom("box4", "mirror.translate", GTranslate(GMirrorXY(GVar("box3")), <<0, 5, 0>>)),
      SetAttr("box4", "name", "box4"),
      NewGeom("box1", "cut.cut.cut", GCut(GCut(GCut(GVar("box1"), GVar("box2")), GVar("box3")), GVar("box4"))),
      Assembly("a1", "ensemble",
               <<[var |-> "box1", name |-> "red box", color |-> "#d7191c/0.5"],
                 [var |-> "box3", name |-> "green box", color |-> "#abdda4"],
                 [var |-> "box4", name |-> "blue box", color |-> "(43, 131, 186)"]>>),
      Show(<<"a1">>, None),
      Save(<<"b", "o", "x", "e", "s">>, "a1", None)>>

\* lines 82-112, Example Boxes
Cell_Boxes ==
    <<NewGeom("box1", "Workplane.box.chamfer", GBox(10, 20, 30, <<0, 0, 0>>)),
      SetAttr("box1", "name", "box1"),
      NewGeom("box2", "Workplane.box.chamfer", GBox(8, 18, 28, <<0, 0, 0>>)),
      SetAttr("box2", "name", "box2"),
      NewGeom("box3", "Workplane.transformed.box.fillet", GBox(30, 20, 6, <<0, 15, 7>>)),
      SetAttr("box3", "name", "box3"),
      NewGeom("box4", "mirror.translate", GTranslate(GMirrorXY(GVar("box3")), <<0, -5, 0>>)),
      SetAttr("box4", "name", "box4"),
      NewGeom("box1", "cut.cut.cut", GCut(GCut(GCut(GVar("box1"), GVar("box2")), GVar("box3")), GVar("box4"))),
      Assembly("a1", "ensemble",
               <<[var |-> "box1", name |-> "red box", color |-> "#d7191c/0.5"],
                 [var |-> "box3", name |-> "green box", color |-> "#abdda4"],
                 [var |-> "box4", name |-> "blue box", color |-> "(43, 131, 186)"]>>),
      Show(<<"a1">>, None),
      Save(<<"b", "o", "x", "e", "s">>, "a1", None)>>

\* Variant: line 126 assigns s4 a color as well, as line 129 does for s5.
Cell_assembly_SphereColored ==
    <<New("s1", "Solid.make_box.move"),
      SetAttr("s1", "label", "box"),
      SetAttr("s1", "color", "red"),
      New("s2", "Solid.make_cone.move"),
      SetAttr("s2", "label", "cone"),
      SetAttr("s2", "color", "green"),
      New("s3", "Solid.make_cylinder.move"),
      SetAttr("s3", "label", "cylinder"),
      SetAttr("s3", "color", "blue"),
      New("s4", "Solid.make_sphere.move"),
      SetAttr("s4", "label", "sphere"),
      SetAttr("s4", "color", "cyan"),
      New("s5", "Solid.make_torus.move"),
      SetAttr("s5", "label", "torus"),
      SetAttr("s5", "color", "cyan"),
      Compound("c2", "c2", <<"s2", "s3">>),
      Compound("c3", "c3", <<"s4", "s5">>),
      Compound("c1", "c1", <<"s1", "c2", "c3">>),
      Show(<<"c1">>, None),
      Save(<<"a", "s", "s", "e", "m", "b", "l", "y">>, "c1", None)>>

\* lines 114-136, Example assembly
Cell_assembly ==
    <<New("s1", "Solid.make_box.move"),
      SetAttr("s1", "label", "box"),
      SetAttr("s1", "color", "red"),
      New("s2", "Solid.make_cone.move"),
      SetAttr("s2", "label", "cone"),
      SetAttr("s2", "color", "green"),
      New("s3", "Solid.make_cylinder.move"),
      SetAttr("s3", "label", "cylinder"),
      SetAttr("s3", "color", "blue"),
      New("s4", "Solid.make_sphere.move"),
      SetAttr("s4", "label", "sphere"),
      New("s5", "Solid.make_torus.move"),
      SetAttr("s5", "label", "torus"),
      SetAttr("s5", "color", "cyan"),
      Compound("c2", "c2", <<"s2", "s3">>),
      Compound("c3", "c3", <<"s4", "s5">>),
      Compound("c1", "c1", <<"s1", "c2", "c3">>),
      Show(<<"c1">>, None),
      Save(<<"a", "s", "s", "e", "m", "b", "l", "y">>, "c1", None)>>

\* lines 138-143, Example Profile 4040
Cell_Profile4040 ==
    <<New("profile4040", "import_step"),
      SetAttr("profile4040", "color", "silver"),
      SetAttr("profile4040", "label", "profile 40x40"),
      Show(<<"profile4040">>, None),
      Save(<<"p", "r", "o", "f", "i", "l", "e", "4", "0", "4", "0">>, "profile4040", None)>>

\* lines 145-174, Example Torus Knot
Cell_TorusKnot ==
    <<Points(RatInt(0), RatMul(pi, 2), 200),
      New("p", "BuildPart"),
      New("l", "BuildLine"),
      New("m1", "Spline"),
      New("m2", "Line"),
      New("pln", "Plane"),
      New("s", "BuildSketch.Circle"),
      New("_", "sweep"),
      SetAttr("p", "color", "#852e00"),
      Show(<<"p">>, None),
      Save(<<"t", "o", "r", "u", "s", "k", "n", "o", "t">>, "p", None)>>

\* lines 176-184, Example faces
Cell_faces ==
    <<New("b", "box1.faces"),
      SetAttr("b", "name", "faces"),
      SetAttr("box1", "name", "box1"),
      Show(<<"box1", "b">>, Some(<<"box", "faces">>)),
      Export(<<"f", "a", "c", "e", "s">>, <<"b", "box1">>, Some(<<"faces", "box">>), <<"f", "a", "c", "e", "s", ".", "j", "s">>)>>

\* lines 186-194, Example edges
Cell_edges ==
    <<New("b", "box1.edges"),
      SetAttr("b", "name", "edges"),
      SetAttr("box1", "name", "box1"),
      Show(<<"box1", "b">>, Some(<<"box", "edges">>)),
      Export(<<"e", "d", "g", "e", "s">>, <<"b", "box1">>, Some(<<"edges", "box">>), <<"e", "d", "g", "e", "s", ".", "j", "s">>)>>

\* lines 196-204, Example vertices (titled faces)
Cell_vertices ==
    <<New("b", "box1.vertices"),
      SetAttr("b", "name", "vertices"),
      SetAttr("box1", "name", "box1"),
      Show(<<"box1", "b">>, Some(<<"box", "vertices">>)),
      Export(<<"v", "e", "r", "t", "i", "c", "e", "s">>, <<"b", "box1">>, Some(<<"vertices", "box">>), <<"v", "e", "r", "t", "i", "c", "e", "s", ".", "j", "s">>)>>

\* Variant: line 211 assigns the label to box1 instead of b.
Cell_drops_LabelsBox1 ==
    <<New("b", "Box.sub.Cylinder"),
      New("b", "fillet"),
      New("b", "chamfer"),
      SetAttr("box1", "label", "drops"),
      Show(<<"b">>, None),
      Save(<<"d", "r", "o", "p", "s">>, "b", None)>>

\* lines 206-213, Example drops
Cell_drops ==
    <<New("b", "Box.sub.Cylinder"),
      New("b", "fillet"),
      New("b", "chamfer"),
      SetAttr("b", "label", "drops"),
      Show(<<"b">>, None),
      Save(<<"d", "r", "o", "p", "s">>, "b", None)>>

\* lines 215-219, Example Single faces
Cell_SingleFaces ==
    <<New("b", "Box"),
      New("b", "fillet.faces"),
      Show(<<"b">>, None),
      Save(<<"s", "i", "n", "g", "l", "e", "-", "f", "a", "c", "e", "s">>, "b", None)>>

\* Variant: line 225 keeps the name of line 219.
Cell_SingleEdges_SavesAsFaces ==
    <<New("b", "Box"),
      New("b", "fillet.edges"),
      Show(<<"b">>, None),
      Save(<<"s", "i", "n", "g", "l", "e", "-", "f", "a", "c", "e", "s">>, "b", None)>>

\* lines 221-225, Example Single edges
Cell_SingleEdges ==
    <<New("b", "Box"),
      New("b", "fillet.edges"),
      Show(<<"b">>, None),
      Save(<<"s", "i", "n", "g", "l", "e", "-", "e", "d", "g", "e", "s">>, "b", None)>>

\* lines 227-231, Example Single vertices
Cell_SingleVertices ==
    <<New("b", "Box"),
      New("b", "fillet.vertices"),
      Show(<<"b">>, None),
      Save(<<"s", "i", "n", "g", "l", "e", "-", "v", "e", "r", "t", "i", "c", "e", "s">>, "b", None)>>


\* The example cells in file order.
Script ==
    <<Cell_box, Cell_box1, Cell_ImageFace, Cell_orientation_box, Cell_dir_box,
      Cell_Boxes, Cell_assembly, Cell_Profile4040, Cell_TorusKnot, Cell_faces,
      Cell_edges, Cell_vertices, Cell_drops, Cell_SingleFaces,
      Cell_SingleEdges, Cell_SingleVertices>>

----------------------------------------------------------------------------
(* Interpreter state *)

RECURSIVE Eval(_, _, _)
\* The solid a geometry expression denotes under bindings en and heap h.
Eval(e, en, h) ==
    IF e.g = "box" THEN box(e.l, e.w, e.h, e.o)
    ELSE IF e.g = "var" THEN h[en[e.var]].geom
    ELSE IF e.g = "mirrorXY" THEN mirrorXY(Eval(e.of, en, h))
    ELSE IF e.g = "translate" THEN translate(Eval(e.of, en, h), e.by)
    ELSE IF e.g = "cut" THEN cut(Eval(e.a, en, h), Eval(e.b, en, h))
    ELSE NoGeom

\* A freshly constructed object.  creator is the cell that constructed it.
Obj(creator, kind, name, geom) ==
    [creator |-> creator, kind |-> kind, name |-> name, label |-> None,
     color |-> None, parent |-> 0, children |-> <<>>, parts |-> <<>>,
     geom |-> geom]

\* Assignment to a module-level variable.
Bind(en, v, o) == [x \in DOMAIN en \cup {v} |-> IF x = v THEN o ELSE en[x]]

RECURSIVE Snap(_, _)
\* What a display or an export serialises of object o: its kind, its
\* metadata and its children.
Snap(h, o) ==
    [kind |-> h[o].kind, name |-> h[o].name, label |-> h[o].label,
     color |-> h[o].color, parts |-> h[o].parts,
     sub |-> [i \in 1..Len(h[o].children) |-> Snap(h, h[o].children[i])]]

\* The scene written for a call export_three_cad_viewer_js(var, *objs,
\* names=names).
Chunk(h, var, objs, names) ==
    [var |-> var, objs |-> [i \in 1..Len(objs) |-> Snap(h, objs[i])],
     names |-> names]

\* An entry of the log: cell did kind.  owner is the cell that constructed
\* the object a setattr writes (the acting cell otherwise); arg is the
\* assignment of a setattr, the scene of a show, the file and scene of an
\* export.
Event(cell, kind, owner, arg) ==
    [cell |-> cell, kind |-> kind, owner |-> owner, arg |-> arg]

NoCall == [name |-> <<>>, filename |-> None, done |-> TRUE]

Running == status = "running" /\ pc[1] <= Len(Script)
Stmt == Script[pc[1]][pc[2]]
NextPc ==
    IF pc[2] < Len(Script[pc[1]]) THEN <<pc[1], pc[2] + 1>>
    ELSE <<pc[1] + 1, 1>>

\* The first process: an empty working directory, nothing displayed.
Init ==
    /\ run = 1
    /\ status = "running"
    /\ pc = <<1, 1>>
    /\ heap = <<>>
    /\ env = [x \in {} |-> 0]
    /\ zz = <<>>
    /\ viewer = None
    /\ files = [f \in {} |-> <<>>]
    /\ log = <<>>
    /\ completed = 0
    /\ firstFiles = None
    /\ call = NoCall

----------------------------------------------------------------------------
(* One action per kind of statement *)

ExecNew ==
    /\ Running
    /\ Stmt.op = "new"
    /\ heap' = Append(heap, Obj(pc[1], Stmt.kind, Stmt.name,
                                Eval(Stmt.geom, env, heap)))
    /\ env' = Bind(env, Stmt.var, Len(heap) + 1)
    /\ log' = Append(log, Event(pc[1], "construct", pc[1], None))
    /\ pc' = NextPc
    /\ UNCHANGED <<run, status, zz, viewer, files, completed, firstFiles, call>>

ExecSetAttr ==
    /\ Running
    /\ Stmt.op = "setattr"
    /\ LET o == env[Stmt.var]
       IN  /\ heap' = [heap EXCEPT ![o][Stmt.attr] = Some(Stmt.val)]
           /\ log' = Append(log, Event(pc[1], "setattr", heap[o].creator,
                                       [var |-> Stmt.var, attr |-> Stmt.attr,
                                        val |-> Stmt.val]))
    /\ pc' = NextPc
    /\ UNCHANGED <<run, status, env, zz, viewer, files, completed, firstFiles,
                   call>>

\* Compound(label=..., children=[...]) links the children to the new
\* compound; it assigns none of their other attributes.
ExecCompound ==
    /\ Running
    /\ Stmt.op = "compound"
    /\ LET new == Len(heap) + 1
           kids == [i \in 1..Len(Stmt.children) |-> env[Stmt.children[i]]]
           c == [Obj(pc[1], "Compound", None, NoGeom) EXCEPT
                    !.label = Some(Stmt.label), !.children = kids]
       IN  /\ heap' = Append([o \in DOMAIN heap |->
                                 IF \E i \in DOMAIN kids : kids[i] = o
                                 THEN [heap[o] EXCEPT !.parent = new]
                                 ELSE heap[o]], c)
           /\ env' = Bind(env, Stmt.var, new)
    /\ log' = Append(log, Event(pc[1], "construct", pc[1], None))
    /\ pc' = NextPc
    /\ UNCHANGED <<run, status, zz, viewer, files, completed, firstFiles, call>>

\* cq.Assembly(name=...).add(obj, name=..., color=...): the name and color
\* of an add belong to the assembly's node, not to the object added.
ExecAssembly ==
    /\ Running
    /\ Stmt.op = "assembly"
    /\ LET a == [Obj(pc[1], "Assembly", Some(Stmt.name), NoGeom) EXCEPT
                    !.children = [i \in 1..Len(Stmt.parts) |->
                                     env[Stmt.parts[i].var]],
                    !.parts = [i \in 1..Len(Stmt.parts) |->
                                  [name |-> Stmt.parts[i].name,
                                   color |-> Stmt.parts[i].color]]]
       IN  /\ heap' = Append(heap, a)
           /\ env' = Bind(env, Stmt.var, Len(heap) + 1)
    /\ log' = Append(log, Event(pc[1], "construct", pc[1], None))
    /\ pc' = NextPc
    /\ UNCHANGED <<run, status, zz, viewer, files, completed, firstFiles, call>>

ExecPoints ==
    /\ Running
    /\ Stmt.op = "points"
    /\ zz' = points(Stmt.t0, Stmt.t1, Stmt.samples)
    /\ log' = Append(log, Event(pc[1], "construct", pc[1], None))
    /\ pc' = NextPc
    /\ UNCHANGED <<run, status, heap, env, viewer, files, completed,
                   firstFiles, call>>

ExecShow ==
    /\ Running
    /\ Stmt.op = "show"
    /\ LET scene == [objs |-> [i \in 1..Len(Stmt.vars) |->
                                  Snap(heap, env[Stmt.vars[i]])],
                     names |-> Stmt.names]
       IN  /\ viewer' = Some(scene)
           /\ log' = Append(log, Event(pc[1], "show", pc[1], scene))
    /\ pc' = NextPc
    /\ UNCHANGED <<run, status, heap, env, zz, files, completed, firstFiles,
                   call>>

\* The export call a save or export statement makes.
ExportCall(st, en) ==
    IF st.op = "save" THEN save(st.name, en[st.var], st.filename)
    ELSE [var |-> st.id,
          objs |-> [i \in 1..Len(st.vars) |-> en[st.vars[i]]],
          names |-> st.names,
          filename |-> st.filename]

ExecSave ==
    /\ Running
    /\ Stmt.op = "save"
    /\ LET c == ExportCall(Stmt, env)
           chunk == Chunk(heap, c.var, c.objs, c.names)
       IN  /\ files' = export_three_cad_viewer_js(files, c.filename, chunk)
           /\ log' = Append(log, Event(pc[1], "export", pc[1],
                                       [file |-> c.filename, chunk |-> chunk]))
    /\ pc' = NextPc
    /\ UNCHANGED <<run, status, heap, env, zz, viewer, completed, firstFiles,
                   call>>

ExecExport ==
    /\ Running
    /\ Stmt.op = "export"
    /\ LET c == ExportCall(Stmt, env)
           chunk == Chunk(heap, c.var, c.objs, c.names)
       IN  /\ files' = export_three_cad_viewer_js(files, c.filename, chunk)
           /\ log' = Append(log, Event(pc[1], "export", pc[1],
                                       [file |-> c.filename, chunk |-> chunk]))
    /\ pc' = NextPc
    /\ UNCHANGED <<run, status, heap, env, zz, viewer, completed, firstFiles,
                   call>>

----------------------------------------------------------------------------
(* Process start, end and failure *)

\* Variant: the exception is swallowed and the script goes on with the next
\* statement.
RaiseSwallowed ==
    /\ Running
    /\ pc' = NextPc
    /\ UNCHANGED <<run, status, heap, env, zz, viewer, files, log, completed,
                   firstFiles, call>>

\* The statement at pc raises.  No statement of the script is inside a try
\* block, so the exception ends the process.
Raise ==
    /\ Running
    /\ status' = "halted"
    /\ UNCHANGED <<run, pc, heap, env, zz, viewer, files, log, completed,
                   firstFiles, call>>

\* The export of the statement at pc raises after it opened its file.
RaiseInExport ==
    /\ Running
    /\ Stmt.op \in {"save", "export"}
    /\ status' = "halted"
    /\ files' = Truncated(files, ExportCall(Stmt, env).filename)
    /\ UNCHANGED <<run, pc, heap, env, zz, viewer, log, completed, firstFiles,
                   call>>

\* The script reaches its end and the process exits.
Exit ==
    /\ status = "running"
    /\ pc[1] > Len(Script)
    /\ status' = "exited"
    /\ completed' = completed + 1
    /\ firstFiles' = IF firstFiles = None THEN Some(files) ELSE firstFiles
    /\ UNCHANGED <<run, pc, heap, env, zz, viewer, files, log, call>>

\* The script is run again in the same working directory.
StartRun ==
    /\ status \in {"halted", "exited"}
    /\ run < MaxRuns
    /\ run' = run + 1
    /\ status' = "running"
    /\ pc' = <<1, 1>>
    /\ heap' = <<>>
    /\ env' = [x \in {} |-> 0]
    /\ zz' = <<>>
    /\ log' = <<>>
    /\ UNCHANGED <<viewer, files, completed, firstFiles, call>>

Next ==
    \/ ExecNew
    \/ ExecSetAttr
    \/ ExecCompound
    \/ ExecAssembly
    \/ ExecPoints
    \/ ExecShow
    \/ ExecSave
    \/ ExecExport
    \/ Raise
    \/ RaiseInExport
    \/ Exit
    \/ StartRun

Spec == Init /\ [][Next]_vars

----------------------------------------------------------------------------
(* Harness for the export helper: one call of save(name, obj, filename)    *)
(* with arbitrary arguments, in an empty working directory.                *)

Alphabet == {"a", "-", "_"}
Strings == UNION {[1..k -> Alphabet] : k \in 0..MaxNameLen}

\* The save statements of the script.
ScriptSaves ==
    UNION {{Script[c][i] : i \in {j \in DOMAIN Script[c] :
                                    Script[c][j].op = "save"}} :
           c \in DOMAIN Script}

\* Argument strings: the bounded ones and those the script passes.
SaveArgs ==
    Strings \cup {s.name : s \in ScriptSaves}
            \cup {s.filename[1] : s \in {x \in ScriptSaves : x.filename # None}}

SaveInit ==
    /\ run = 1
    /\ status = "running"
    /\ pc = <<1, 1>>
    /\ heap = <<Obj(0, "object", None, NoGeom)>>
    /\ env = [x \in {} |-> 0]
    /\ zz = <<>>
    /\ viewer = None
    /\ files = [f \in {} |-> <<>>]
    /\ log = <<>>
    /\ completed = 0
    /\ firstFiles = None
    /\ call \in [name : SaveArgs,
                 filename : {None} \cup {Some(f) : f \in SaveArgs},
                 done : {FALSE}]

CallSave ==
    /\ ~call.done
    /\ LET c == save(call.name, 1, call.filename)
       IN  files' = export_three_cad_viewer_js(
                        files, c.filename, Chunk(heap, c.var, c.objs, c.names))
    /\ call' = [call EXCEPT !.done = TRUE]
    /\ UNCHANGED <<run, status, pc, heap, env, zz, viewer, log, completed,
                   firstFiles>>

SaveNext == CallSave

SaveSpec == SaveInit /\ [][SaveNext]_vars

----------------------------------------------------------------------------
(* Properties *)

\* Position of a cell in the script.
CellOf(cell) == CHOOSE c \in DOMAIN Script : Script[c] = cell

\* The current process has executed statement <<c, i>>.
Past(c, i) == pc[1] > c \/ (pc[1] = c /\ pc[2] > i)

\* The file names in the working directory.
Written == DOMAIN files

\* C1 as stated: a call save(name, obj) without a filename writes the file
\* named name with every dash replaced by an underscore, plus ".js".
C1_DashesReplacedInFileName ==
    (call.done /\ call.filename = None) =>
        Written = {Replace(call.name, "-", "_") \o DotJs}

\* C1 amended: a call save(name, obj) without a filename writes the file
\* named name plus ".js", dashes kept; only the in-scene identifier has the
\* dashes replaced by underscores (save("image-face", f) writes
\* image-face.js with identifier image_face).
C1_FileNameKeepsDashes ==
    (call.done /\ call.filename = None) =>
        /\ Written = {call.name \o DotJs}
        /\ Len(files[call.name \o DotJs]) = 1
        /\ files[call.name \o DotJs][1].var = Replace(call.name, "-", "_")
        /\ \A i \in 1..Len(call.name) :
              files[call.name \o DotJs][1].var[i] # "-"

C1_Witness ==
    /\ call.done
    /\ call.filename = None
    /\ call.name = <<"i", "m", "a", "g", "e", "-", "f", "a", "c", "e">>
    /\ <<"i", "m", "a", "g", "e", "-", "f", "a", "c", "e", ".", "j", "s">>
          \in Written
    /\ <<"i", "m", "a", "g", "e", "_", "f", "a", "c", "e", ".", "j", "s">>
          \notin Written

\* C2: a call save(name, obj, filename=F) writes exactly the file F plus
\* ".js", not derived from name and with the dashes of F kept, and the
\* in-scene identifier is name with dashes replaced by underscores.
C2_ExplicitFileName ==
    (call.done /\ call.filename # None) =>
        LET F == call.filename[1]
        IN  /\ Written = {F \o DotJs}
            /\ Len(files[F \o DotJs]) = 1
            /\ files[F \o DotJs][1].var = Replace(call.name, "-", "_")

C2_Witness ==
    /\ call.done
    /\ call.name = <<"o", "r", "i", "e", "n", "t", "_", "b", "o", "x">>
    /\ call.filename = Some(<<"o", "r", "i", "e", "n", "t", "a", "t", "i",
                              "o", "n", "-", "b", "o", "x">>)
    /\ Written = {<<"o", "r", "i", "e", "n", "t", "a", "t", "i", "o", "n",
                    "-", "b", "o", "x", ".", "j", "s">>}

\* zz has been assigned by the torus knot cell of the current process.
SampledZZ == Past(CellOf(Cell_TorusKnot), 1)

\* The position right after line 162, zz = points(0, 2 * pi, 200).
AfterPoints == <<CellOf(Cell_TorusKnot), 2>>

\* zz holds one point per integer t of range(0, Len(zz)), each with
\* t / 200 in [0, 2*pi): t * 10^6 < 2 * 3141592 * 200.
OnePerIntegerBelowTwoPi ==
    \A i \in 1..Len(zz) :
        zz[i] = i - 1 /\ zz[i] * pi.den < 2 * pi.num * 200

\* C3 as stated: points(0, 2*pi, 200) yields exactly 200 points, one per
\* integer t of the range, each with t/samples in [0, 2*pi).
C3_TwoHundredPoints ==
    /\ SampledZZ => Len(zz) = 200
    /\ pc = AfterPoints => OnePerIntegerBelowTwoPi

\* C3 amended: points(0, 2*pi, 200) yields exactly 1256 = int(2*pi*200)
\* points, one per integer t in range(0, 1256), and every sampled parameter
\* t/200 lies in [0, 2*pi).
C3_SamplesPerUnit ==
    /\ SampledZZ => Len(zz) = 1256
    /\ pc = AfterPoints => OnePerIntegerBelowTwoPi

C3_Witness == SampledZZ /\ Len(zz) > 200 /\ zz[Len(zz)] = 1255

RECURSIVE StmtsOfCells(_)
\* Number of statements in the first n cells.
StmtsOfCells(n) == IF n = 0 THEN 0 ELSE StmtsOfCells(n - 1) + Len(Script[n])

\* Number of statements that precede position p.
StmtsBefore(p) == StmtsOfCells(p[1] - 1) + p[2] - 1

\* The log entries of one kind.
EventsOf(kind) == {i \in DOMAIN log : log[i].kind = kind}

\* C4: a statement is passed only by completing, so a step that fails is
\* where the script halts: exactly the statements before it have acted, no
\* later cell has displayed or exported anything, the viewer shows what the
\* last completed show displayed, and every file exported earlier in the
\* run is present with the content its cell wrote.
C4_HaltsWithEarlierExportsIntact ==
    /\ Len(log) = StmtsBefore(pc)
    /\ status = "halted" =>
          /\ pc[1] <= Len(Script)
          /\ \A i \in DOMAIN log : log[i].cell <= pc[1]
          /\ \A i \in EventsOf("export") :
                /\ log[i].cell < pc[1]
                /\ log[i].arg.file \in Written
                /\ files[log[i].arg.file] = <<log[i].arg.chunk>>
          /\ \A i \in EventsOf("show") :
                (\A j \in EventsOf("show") : j <= i)
                    => viewer = Some(log[i].arg)

C4_Witness ==
    /\ status = "halted"
    /\ pc[1] = CellOf(Cell_edges)
    /\ Cardinality(EventsOf("export")) = CellOf(Cell_edges) - 1
    /\ <<"e", "d", "g", "e", "s", ".", "j", "s">> \in Written
    /\ files[<<"e", "d", "g", "e", "s", ".", "j", "s">>] = <<>>

\* C5: re-running the script overwrites each export file: after any
\* complete run the export files and their contents are those the first
\* complete run left.
C5_RerunOverwrites ==
    status = "exited" => firstFiles = Some(files)

C5_Witness ==
    /\ status = "exited"
    /\ completed >= 2
    /\ firstFiles = Some(files)
    /\ Cardinality(Written) > 0

\* C6 as stated: every attribute assignment of a cell targets an object the
\* same cell constructed.
C6_NoCrossCellWrite ==
    \A i \in EventsOf("setattr") : log[i].owner = log[i].cell

\* The cells that inspect the box1 object of the Boxes cell.
Inspectors == {CellOf(Cell_faces), CellOf(Cell_edges), CellOf(Cell_vertices)}

\* C6 amended: every attribute assignment of a cell targets an object the
\* same cell constructed, except that the faces, edges and vertices cells
\* each assign name = "box1" to the box1 object the Boxes cell constructed.
C6_OnlyBox1NameCrossesCells ==
    /\ \A i \in EventsOf("setattr") :
          \/ log[i].owner = log[i].cell
          \/ /\ log[i].cell \in Inspectors
             /\ log[i].owner = CellOf(Cell_Boxes)
             /\ log[i].arg = [var |-> "box1", attr |-> "name", val |-> "box1"]
    /\ \A c \in Inspectors :
          pc[1] > c =>
              Cardinality({i \in EventsOf("setattr") :
                              log[i].cell = c /\ log[i].owner # c}) = 1

C6_Witness ==
    /\ pc[1] > CellOf(Cell_vertices)
    /\ \E i \in EventsOf("setattr") :
          /\ log[i].cell = CellOf(Cell_faces)
          /\ log[i].owner = CellOf(Cell_Boxes)
    /\ heap[env["box1"]].creator = CellOf(Cell_Boxes)
    /\ heap[env["box1"]].name = Some("box1")

\* The compounds c2, c3 and c1 of the assembly cell have been built.
Composed == Past(CellOf(Cell_assembly), Len(Cell_assembly) - 2)

\* Label and color of the object bound to a variable.
Meta(v) == <<heap[env[v]].label, heap[env[v]].color>>
\* Label and color as the scene of c1 carries them.
SceneMeta(s) == <<s.label, s.color>>

\* C7: after c2, c3 and c1 are built each child carries exactly the label
\* and color assigned before composition, also the children nested two
\* levels deep, as objects and in the scene serialised from c1.
C7_ChildrenKeepLabelAndColor ==
    Composed =>
        /\ Meta("s1") = <<Some("box"), Some("red")>>
        /\ Meta("s2") = <<Some("cone"), Some("green")>>
        /\ Meta("s3") = <<Some("cylinder"), Some("blue")>>
        /\ Meta("s4") = <<Some("sphere"), None>>
        /\ Meta("s5") = <<Some("torus"), Some("cyan")>>
        /\ LET scene == Snap(heap, env["c1"])
           IN  /\ SceneMeta(scene) = <<Some("c1"), None>>
               /\ SceneMeta(scene.sub[1]) = Meta("s1")
               /\ SceneMeta(scene.sub[2]) = <<Some("c2"), None>>
               /\ SceneMeta(scene.sub[3]) = <<Some("c3"), None>>
               /\ SceneMeta(scene.sub[2].sub[1]) = Meta("s2")
               /\ SceneMeta(scene.sub[2].sub[2]) = Meta("s3")
               /\ SceneMeta(scene.sub[3].sub[1]) = Meta("s4")
               /\ SceneMeta(scene.sub[3].sub[2]) = Meta("s5")

C7_Witness ==
    /\ Composed
    /\ heap[env["s4"]].parent = env["c3"]
    /\ heap[env["c3"]].parent = env["c1"]
    /\ heap[env["s4"]].color = None
    /\ heap[env["s2"]].label = Some("cone")

\* The process has just executed line 102,
\* box1 = box1.cut(box2).cut(box3).cut(box4).
AfterCut == status = "running" /\ pc = <<CellOf(Cell_Boxes), 10>>

\* The result of the cut chain, box1 before it, and the three cutters.
CutResult == heap[env["box1"]].geom
CutBase == CutResult.a.a.a
Cutter(v) == heap[env[v]].geom

\* C8 as stated: the regions box2, box3 and box4 remove from box1 are
\* pairwise non-overlapping, so the result's volume is box1's volume minus
\* the sum of the volumes of the three regions.
C8_RemovedRegionsDisjoint ==
    AfterCut =>
        LET base == CellsOf(CutBase)
            r2 == Within(base, Cutter("box2"))
            r3 == Within(base, Cutter("box3"))
            r4 == Within(base, Cutter("box4"))
        IN  /\ r2 \cap r3 = {}
            /\ r2 \cap r4 = {}
            /\ r3 \cap r4 = {}
            /\ Cardinality(Within(base, CutResult)) =
                  Cardinality(base) - Cardinality(r2) - Cardinality(r3)
                                    - Cardinality(r4)

\* C8 amended: the regions box3 and box4 cover in box1 are disjoint from
\* each other, but each overlaps the region of box2 (by 192 and 432 unit
\* cells); the result's volume is box1's volume minus the volume of the
\* union of the three regions, 6000 - (4032 + 300 + 600 - 192 - 432) = 1692,
\* which is box1's volume minus the material each successive cut actually
\* removes (4032, 108 and 168).
C8_VolumeByInclusionExclusion ==
    AfterCut =>
        LET base == CellsOf(CutBase)
            r2 == Within(base, Cutter("box2"))
            r3 == Within(base, Cutter("box3"))
            r4 == Within(base, Cutter("box4"))
        IN  /\ Cardinality(base) = 6000
            /\ Cardinality(r2) = 4032
            /\ Cardinality(r3) = 300
            /\ Cardinality(r4) = 600
            /\ r3 \cap r4 = {}
            /\ Cardinality(r2 \cap r3) = 192
            /\ Cardinality(r2 \cap r4) = 432
            /\ Cardinality(r3 \ r2) = 108
            /\ Cardinality(r4 \ r2) = 168
            /\ LET volume == Cardinality(Within(base, CutResult))
               IN  /\ volume = 6000 - (4032 + 300 + 600 - 192 - 432)
                   /\ volume = 6000 - 4032 - 108 - 168

C8_Witness ==
    /\ AfterCut
    /\ CutResult.k = "cut"
    /\ Volume(CutResult) < Volume(CutBase)
    /\ Within(Within(CellsOf(CutBase), Cutter("box2")), Cutter("box3")) # {}

\* Construction is 1, display 2, export 3.
Rank(kind) ==
    IF kind = "show" THEN 2 ELSE IF kind = "export" THEN 3 ELSE 1

\* C9: cells run one after the other and each in the order construction,
\* display, export: within a cell no construction follows its show and no
\* show follows its export, there is one show and at most one export per
\* cell, and the first step of the next cell follows the export of the one
\* before.
C9_CellsSequentialConstructShowExport ==
    /\ \A i \in 1..(Len(log) - 1) :
          \/ /\ log[i + 1].cell = log[i].cell
             /\ Rank(log[i].kind) <= Rank(log[i + 1].kind)
             /\ Rank(log[i].kind) = Rank(log[i + 1].kind)
                   => Rank(log[i].kind) = 1
          \/ /\ log[i + 1].cell = log[i].cell + 1
             /\ log[i].kind = "export"
             /\ Rank(log[i + 1].kind) = 1
    /\ \A c \in DOMAIN Script :
          pc[1] > c =>
              /\ Cardinality({i \in EventsOf("show") : log[i].cell = c}) = 1
              /\ Cardinality({i \in EventsOf("export") : log[i].cell = c}) <= 1
              /\ \E i \in DOMAIN log : log[i].cell = c /\ Rank(log[i].kind) = 1

C9_Witness ==
    /\ status = "exited"
    /\ Cardinality(EventsOf("show")) = Len(Script)
    /\ log[Len(log)].kind = "export"
    /\ log[Len(log) - 1].kind = "show"

\* C10: within one run no two cells write the same file or use the same
\* in-scene identifier, and a complete run leaves 16 export files, one per
\* exporting cell.
C10_DistinctExports ==
    /\ \A i \in EventsOf("export") : \A j \in EventsOf("export") :
          i # j =>
              /\ log[i].arg.file # log[j].arg.file
              /\ log[i].arg.chunk.var # log[j].arg.chunk.var
    /\ status = "exited" =>
          /\ Cardinality(EventsOf("export")) = 16
          /\ Cardinality(Written) = 16
          /\ Cardinality({log[i].arg.chunk.var : i \in EventsOf("export")}) = 16

C10_Witness ==
    /\ status = "exited"
    /\ Cardinality(Written) = 16
    /\ <<"s", "i", "n", "g", "l", "e", "-", "e", "d", "g", "e", "s", ".",
         "j", "s">> \in Written

====
